---- MODULE Spec2Model ----
(***************************************************************************)
(* Filesystem blob-store backend (pkg/simplecontent/storage/fs/fs.go).     *)
(*                                                                         *)
(* Strings that are paths, keys or URL prefixes are modelled as the        *)
(* sequence of their "/"-separated segments, so that string equality is    *)
(* sequence equality and a+"/"+b is a \o b:                                 *)
(*     ""        <<"">>            "a/b"    <<"a","b">>                     *)
(*     "/w/r"    <<"","w","r">>    "/w/r/"  <<"","w","r","">>               *)
(*     "./r"     <<".","r">>       "/"      <<"","">>                       *)
(* A node of the disk is the sequence of directory names from "/" to it    *)
(* (<<>> is "/" itself). File contents are sequences of bytes.             *)
(***************************************************************************)
EXTENDS Integers, Sequences, FiniteSets, TLC

VARIABLES config, baseDir, urlPrefix, signer, presignExpires, dirs, files, now, ticks,
          grant, last, calls

vars ==
    <<config, baseDir, urlPrefix, signer, presignExpires, dirs, files, now, ticks, grant,
      last, calls>>

\* The Config given to New and the Backend's fields, fixed at construction.
backend == <<config, baseDir, urlPrefix, signer, presignExpires>>

\* ------------------------------------------------------------------ bounds

\* Longest payload a caller uploads.
MaxLen == 1

\* Number of clock advances observed in one behaviour.
MaxTicks == 3

\* ---------------------------------------------------------------- universe

Bytes == {1, 2}

\* Payloads of one repeated byte, of every length up to MaxLen.
Payloads == {[i \in 1..n |-> b] : n \in 0..MaxLen, b \in Bytes}

EmptyStr == <<"">>

\* Object keys: "", "a", "a/b/c", "a/b/d", "a/./b/c" (another spelling of
\* "a/b/c") and "../x" (a parent-directory segment leaving the root).
Keys ==
    {EmptyStr, <<"a">>, <<"a", "b", "c">>, <<"a", "b", "d">>, <<"a", ".", "b", "c">>,
     <<"..", "x">>}

\* Config.BaseDir values: "/w/r", "/w/r/" and "./r"; all name the directory /w/r.
BaseDirs == {<<"", "w", "r">>, <<"", "w", "r", "">>, <<".", "r">>}

\* The process's working directory, /w, and the disk before New runs.
Cwd == <<"w">>

InitialDirs == {<<>>, Cwd}

\* ------------------------------------------------------ path/filepath

IsRooted(path) == Len(path) >= 2 /\ path[1] = ""

RECURSIVE CleanSegs(_, _, _)
CleanSegs(segs, out, rooted) ==
    IF segs = <<>> THEN out
    ELSE LET s == Head(segs)
             rest == Tail(segs)
         IN  IF s = "" \/ s = "." THEN CleanSegs(rest, out, rooted)
             ELSE IF s = ".."
                  THEN IF out # <<>> /\ out[Len(out)] # ".."
                       THEN CleanSegs(rest, SubSeq(out, 1, Len(out) - 1), rooted)
                       ELSE IF rooted THEN CleanSegs(rest, out, rooted)
                            ELSE CleanSegs(rest, Append(out, ".."), rooted)
                  ELSE CleanSegs(rest, Append(out, s), rooted)

\* filepath.Clean: drops empty and "." segments, resolves ".." lexically.
Clean(path) ==
    LET rooted == IsRooted(path)
        out == CleanSegs(IF rooted THEN Tail(path) ELSE path, <<>>, rooted)
    IN  IF rooted
        THEN IF out = <<>> THEN <<"", "">> ELSE <<"">> \o out
        ELSE IF out = <<>> THEN <<".">> ELSE out

\* filepath.Join(base, key) for a non-empty base: Clean(base + "/" + key).
Join(base, key) == Clean(base \o key)

\* filepath.Dir: Clean of the path up to and including its last separator.
Dir(path) ==
    IF Len(path) = 1 THEN Clean(EmptyStr)
    ELSE Clean(SubSeq(path, 1, Len(path) - 1) \o EmptyStr)

\* ------------------------------------------------------------ the disk

Prefixes(n) == {SubSeq(n, 1, i) : i \in 0..Len(n)}

ProperPrefixes(n) == {SubSeq(n, 1, i) : i \in 0..(Len(n) - 1)}

\* The node a path string names: relative paths start at the working directory.
Resolve(path) ==
    LET c == Clean(IF IsRooted(path) THEN path ELSE <<"">> \o Cwd \o path)
    IN  IF c = <<"", "">> THEN <<>> ELSE Tail(c)

Disk == [dirs |-> dirs, files |-> files]

\* os.Stat / os.Open: "ok", "ENOENT" (os.IsNotExist) or "ENOTDIR".
OsStat(fs, path) ==
    LET n == Resolve(path)
    IN  IF \E a \in ProperPrefixes(n) : a \in DOMAIN fs.files THEN "ENOTDIR"
        ELSE IF n \in fs.dirs \/ n \in DOMAIN fs.files THEN "ok"
        ELSE "ENOENT"

\* os.MkdirAll: creates the directory and every missing parent.
OsMkdirAll(fs, path) ==
    LET n == Resolve(path)
    IN  IF \E a \in Prefixes(n) : a \in DOMAIN fs.files
        THEN [err |-> "ENOTDIR", fs |-> fs]
        ELSE [err |-> "nil", fs |-> [fs EXCEPT !.dirs = fs.dirs \cup Prefixes(n)]]

SetFile(fs, n, content) ==
    [fs EXCEPT !.files = [m \in (DOMAIN fs.files) \cup {n} |->
                            IF m = n THEN content ELSE fs.files[m]]]

\* os.Create without O_TRUNC: an existing file keeps its bytes.
OsCreateNoTrunc(fs, path) ==
    LET n == Resolve(path)
    IN  IF n \in fs.dirs THEN [err |-> "EISDIR", fs |-> fs]
        ELSE IF \E a \in ProperPrefixes(n) : a \in DOMAIN fs.files
             THEN [err |-> "ENOTDIR", fs |-> fs]
        ELSE IF SubSeq(n, 1, Len(n) - 1) \notin fs.dirs
             THEN [err |-> "ENOENT", fs |-> fs]
        ELSE IF n \in DOMAIN fs.files THEN [err |-> "nil", fs |-> fs]
        ELSE [err |-> "nil", fs |-> SetFile(fs, n, <<>>)]

\* os.Create: O_RDWR|O_CREATE|O_TRUNC; the file is empty afterwards.
OsCreate(fs, path) ==
    LET n == Resolve(path)
    IN  IF n \in fs.dirs THEN [err |-> "EISDIR", fs |-> fs]
        ELSE IF \E a \in ProperPrefixes(n) : a \in DOMAIN fs.files
             THEN [err |-> "ENOTDIR", fs |-> fs]
        ELSE IF SubSeq(n, 1, Len(n) - 1) \notin fs.dirs
             THEN [err |-> "ENOENT", fs |-> fs]
        ELSE [err |-> "nil", fs |-> SetFile(fs, n, <<>>)]

\* io.Copy that loses the last byte of the stream.
IoCopyShort(fs, path, bytes) ==
    SetFile(fs, Resolve(path), SubSeq(bytes, 1, Len(bytes) - 1))

\* io.Copy into the fresh handle: the bytes land at offsets 1..Len(bytes).
IoCopy(fs, path, bytes) ==
    LET n == Resolve(path)
        old == fs.files[n]
    IN  SetFile(fs, n, bytes \o SubSeq(old, Len(bytes) + 1, Len(old)))

Entries(fs, n) ==
    {m \in fs.dirs \cup DOMAIN fs.files : Len(m) = Len(n) + 1 /\ SubSeq(m, 1, Len(n)) = n}

\* os.ReadDir
OsReadDir(fs, path) ==
    LET n == Resolve(path)
    IN  IF n \in fs.dirs THEN [err |-> "nil", entries |-> Entries(fs, n)]
        ELSE [err |-> "ENOENT", entries |-> {}]

\* os.Remove: unlink a file, or rmdir an empty directory. rmdir refuses "/",
\* "." and a path ending in "..".
OsRemove(fs, path) ==
    LET n == Resolve(path)
    IN  IF OsStat(fs, path) # "ok" THEN [err |-> OsStat(fs, path), fs |-> fs]
        ELSE IF n \in DOMAIN fs.files
             THEN [err |-> "nil",
                   fs |-> [fs EXCEPT !.files = [m \in (DOMAIN fs.files) \ {n} |-> fs.files[m]]]]
        ELSE IF n = <<>> \/ path = <<".">> \/ path[Len(path)] = ".."
             THEN [err |-> "EINVAL", fs |-> fs]
        ELSE IF Entries(fs, n) # {} THEN [err |-> "ENOTEMPTY", fs |-> fs]
        ELSE [err |-> "nil", fs |-> [fs EXCEPT !.dirs = fs.dirs \ {n}]]

\* ------------------------------------------------------------- Backend

\* Config.SignatureSecretKey values; "" configures no signer.
NoSecret == ""

\* The default presign expiration, one hour, in seconds.
OneHour == 3600

\* b.signer: nil, or the Signer built from a secret key.
NilSigner == [present |-> FALSE, secretKey |-> NoSecret]

SignerOf(secretKey) == [present |-> TRUE, secretKey |-> secretKey]

\* A New that derives the signer's key from the secret and the root: a backend
\* on another root signs with another key.
NewKeyedByRoot(cfg, fs) ==
    IF cfg.BaseDir = EmptyStr THEN [err |-> "base directory is required", fs |-> fs]
    ELSE LET mk == OsMkdirAll(fs, cfg.BaseDir)
         IN  IF mk.err # "nil" THEN [err |-> "failed to create base directory", fs |-> fs]
             ELSE [err |-> "nil", fs |-> mk.fs,
                   baseDir |-> cfg.BaseDir,
                   urlPrefix |-> cfg.URLPrefix,
                   presignExpires |-> IF cfg.PresignExpires = 0 THEN OneHour
                                      ELSE cfg.PresignExpires,
                   signer |-> IF cfg.SignatureSecretKey # NoSecret
                              THEN SignerOf(IF cfg.BaseDir[Len(cfg.BaseDir)] = "r"
                                            THEN cfg.SignatureSecretKey ELSE "s3")
                              ELSE NilSigner]

\* New: the backend's fields and the disk after os.MkdirAll(config.BaseDir).
New(cfg, fs) ==
    IF cfg.BaseDir = EmptyStr THEN [err |-> "base directory is required", fs |-> fs]
    ELSE LET mk == OsMkdirAll(fs, cfg.BaseDir)
         IN  IF mk.err # "nil" THEN [err |-> "failed to create base directory", fs |-> fs]
             ELSE [err |-> "nil", fs |-> mk.fs,
                   baseDir |-> cfg.BaseDir,
                   urlPrefix |-> cfg.URLPrefix,
                   presignExpires |-> IF cfg.PresignExpires = 0 THEN OneHour
                                      ELSE cfg.PresignExpires,
                   signer |-> IF cfg.SignatureSecretKey # NoSecret
                              THEN SignerOf(cfg.SignatureSecretKey)
                              ELSE NilSigner]

\* GetObjectMeta: the error and the Size of the ObjectMeta (ContentType and
\* UpdatedAt are left out: the sniffing only reads). The size Stat reports for
\* a directory is system-dependent; isDir marks that case.
GetObjectMetaRes(fs, objectKey) ==
    LET filePath == Join(baseDir, objectKey)
        st == OsStat(fs, filePath)
        n == Resolve(filePath)
    IN  IF st = "ENOENT" THEN [err |-> "object not found", size |-> 0, isDir |-> FALSE]
        ELSE IF st # "ok" THEN [err |-> "failed to get file info", size |-> 0, isDir |-> FALSE]
        ELSE IF n \in DOMAIN fs.files
             THEN [err |-> "nil", size |-> Len(fs.files[n]), isDir |-> FALSE]
        ELSE [err |-> "nil", size |-> 0, isDir |-> TRUE]

\* Download: the handle os.Open returns, read to its end. Opening a directory
\* succeeds; reading it yields no bytes (isDir).
DownloadRes(fs, objectKey) ==
    LET filePath == Join(baseDir, objectKey)
        st == OsStat(fs, filePath)
        n == Resolve(filePath)
    IN  IF st = "ENOENT" THEN [err |-> "object not found", data |-> <<>>, isDir |-> FALSE]
        ELSE IF st # "ok" THEN [err |-> "failed to open file", data |-> <<>>, isDir |-> FALSE]
        ELSE IF n \in DOMAIN fs.files
             THEN [err |-> "nil", data |-> fs.files[n], isDir |-> FALSE]
        ELSE [err |-> "nil", data |-> <<>>, isDir |-> TRUE]

\* Upload: the reader delivers the first n bytes of payload, then EOF (eof) or
\* an error.
UploadRes(fs, objectKey, payload, n, eof) ==
    LET filePath == Join(baseDir, objectKey)
        mk == OsMkdirAll(fs, Dir(filePath))
    IN  IF mk.err # "nil" THEN [err |-> "failed to create directory", fs |-> fs]
        ELSE LET cr == OsCreate(mk.fs, filePath)
             IN  IF cr.err # "nil" THEN [err |-> "failed to create file", fs |-> mk.fs]
                 ELSE [err |-> IF eof THEN "nil" ELSE "failed to write file",
                       fs |-> IoCopy(cr.fs, filePath, SubSeq(payload, 1, n))]

\* A cleanup that stops after the first level instead of recursing.
cleanupOneLevel(fs, dir) ==
    IF dir = baseDir THEN fs
    ELSE LET rd == OsReadDir(fs, dir)
         IN  IF rd.err = "nil" /\ rd.entries = {}
             THEN LET rm == OsRemove(fs, dir) IN IF rm.err = "nil" THEN rm.fs ELSE fs
             ELSE fs

RECURSIVE cleanupEmptyDirectories(_, _)
cleanupEmptyDirectories(fs, dir) ==
    IF dir = baseDir THEN fs
    ELSE LET rd == OsReadDir(fs, dir)
         IN  IF rd.err = "nil" /\ rd.entries = {}
             THEN LET rm == OsRemove(fs, dir)
                  IN  IF rm.err = "nil" THEN cleanupEmptyDirectories(rm.fs, Dir(dir))
                      ELSE fs
             ELSE fs

DeleteRes(fs, objectKey) ==
    LET filePath == Join(baseDir, objectKey)
    IN  IF OsStat(fs, filePath) = "ENOENT" THEN [err |-> "object not found", fs |-> fs]
        ELSE LET rm == OsRemove(fs, filePath)
             IN  IF rm.err # "nil" THEN [err |-> "failed to delete file", fs |-> fs]
                 ELSE [err |-> "nil", fs |-> cleanupEmptyDirectories(rm.fs, Dir(filePath))]

\* ------------------------------------------------- presigned.Signer

\* The signature string Sign returns: the HMAC of the canonical string of
\* (method, path, expiration) under the secret key, taken as collision-free,
\* so a signature is known by what went into it. flipped marks the string with
\* one of its characters changed.
Sign(secretKey, method, path, expiresAt) ==
    [secretKey |-> secretKey, method |-> method, path |-> path,
     expires |-> expiresAt, flipped |-> FALSE]

\* The empty string presented as a signature.
EmptySig == [secretKey |-> "", method |-> "", path |-> <<>>, expires |-> 0, flipped |-> FALSE]

Flip(signature) == [signature EXCEPT !.flipped = TRUE]

\* An issued URL: its path string, the names of its query parameters in order,
\* and their values.
PlainURL(path) ==
    [path |-> path, query |-> <<>>, signature |-> EmptySig, expires |-> 0, filename |-> ""]

NoURL == PlainURL(EmptyStr)

\* base + path for a path that starts with "/".
Concat(base, path) == base \o Tail(path)

\* SignURLWithBase: base + path + "?signature=..&expires=.." with expiresAt =
\* now + ttl; fails when ttl <= 0 or no secret key is set.
SignURLWithBase(s, base, method, path, ttl, t) ==
    IF ttl <= 0 \/ s.secretKey = NoSecret
    THEN [err |-> "signer: cannot sign", url |-> NoURL]
    ELSE [err |-> "nil",
          url |-> [PlainURL(Concat(base, path)) EXCEPT
                      !.query = <<"signature", "expires">>,
                      !.signature = Sign(s.secretKey, method, path, t + ttl),
                      !.expires = t + ttl]]

\* Validate: expired when now > expiresAt, else invalid unless the presented
\* signature is the recomputed one.
Validate(s, method, path, signature, expiresAt, t) ==
    IF t > expiresAt THEN "expired"
    ELSE IF signature # Sign(s.secretKey, method, path, expiresAt) THEN "invalid signature"
    ELSE "nil"

IsEnabled(s) == s.secretKey # NoSecret

\* ------------------------------------------------------- URL issuance

\* "/upload/" + objectKey
UploadPath(objectKey) == <<"", "upload">> \o objectKey

\* GetUploadURL that signs the bare key instead of the upload path.
GetUploadURLSignsKey(objectKey) ==
    IF urlPrefix = EmptyStr
    THEN [err |-> "direct upload required for filesystem backend", url |-> NoURL]
    ELSE IF signer.present
         THEN LET r == SignURLWithBase(signer, urlPrefix, "PUT", <<"">> \o objectKey,
                                       presignExpires, now)
              IN  [r EXCEPT !.url.path = Concat(urlPrefix, UploadPath(objectKey))]
         ELSE [err |-> "nil", url |-> PlainURL(Concat(urlPrefix, UploadPath(objectKey)))]

GetUploadURLRes(objectKey) ==
    IF urlPrefix = EmptyStr
    THEN [err |-> "direct upload required for filesystem backend", url |-> NoURL]
    ELSE IF signer.present
         THEN SignURLWithBase(signer, urlPrefix, "PUT", UploadPath(objectKey),
                              presignExpires, now)
         ELSE [err |-> "nil", url |-> PlainURL(Concat(urlPrefix, UploadPath(objectKey)))]

\* fmt.Sprintf("%s/download/%s?filename=%s", ...) or "%s/download/%s"
GetDownloadURLRes(objectKey, downloadFilename) ==
    IF urlPrefix = EmptyStr
    THEN [err |-> "direct download required for filesystem backend", url |-> NoURL]
    ELSE IF downloadFilename # ""
         THEN [err |-> "nil",
               url |-> [PlainURL(urlPrefix \o <<"download">> \o objectKey) EXCEPT
                           !.query = <<"filename">>, !.filename = downloadFilename]]
         ELSE [err |-> "nil", url |-> PlainURL(urlPrefix \o <<"download">> \o objectKey)]

GetPreviewURLRes(objectKey) ==
    IF urlPrefix = EmptyStr
    THEN [err |-> "direct preview required for filesystem backend", url |-> NoURL]
    ELSE [err |-> "nil", url |-> PlainURL(urlPrefix \o <<"preview">> \o objectKey)]

\* ValidateUploadSignature that checks the expiration only.
ValidateExpiryOnly(objectKey, signature, expiresAt) ==
    IF ~signer.present THEN "nil"
    ELSE IF now > expiresAt THEN "expired"
    ELSE "nil"

\* ValidateUploadSignature that validates with a signer even when none is set.
ValidateAlways(objectKey, signature, expiresAt) ==
    Validate(signer, "PUT", UploadPath(objectKey), signature, expiresAt, now)

ValidateUploadSignatureRes(objectKey, signature, expiresAt) ==
    IF ~signer.present THEN "nil"
    ELSE Validate(signer, "PUT", UploadPath(objectKey), signature, expiresAt, now)

IsSignedURLEnabledRes == signer.present /\ IsEnabled(signer)

\* A Config that sets nothing.
NoConfig ==
    [BaseDir |-> EmptyStr, URLPrefix |-> EmptyStr, SignatureSecretKey |-> NoSecret,
     PresignExpires |-> 0]

\* The grant most recently minted by GetUploadURL: when (at) and by a backend
\* of which Config (by).
NoGrant ==
    [minted |-> FALSE, key |-> EmptyStr, signature |-> EmptySig, expires |-> 0, at |-> 0,
     by |-> NoConfig]

\* ------------------------------------------------------ calls in progress

\* The goroutines that call into the backend at the same time.
Procs == {1, 2}

\* A call in progress: its arguments, the statement it has reached (pc), the
\* write offset of its file handle (off) and whether that handle's file is
\* still linked under its path, the directory cleanupEmptyDirectories looks at
\* (dir), its return value (err) and, once returned, whether it returned first
\* or second (rank).
NoCallYet ==
    [op |-> "none", key |-> EmptyStr, payload |-> <<>>, pc |-> "idle", off |-> 0,
     linked |-> FALSE, dir |-> EmptyStr, err |-> "nil", rank |-> 0]

NoCalls == [p \in Procs |-> NoCallYet]

\* ------------------------------------------------------- the last call

NoCall ==
    [op |-> "New", key |-> EmptyStr, payload |-> <<>>, err |-> "nil",
     data |-> <<>>, isDir |-> FALSE, size |-> 0,
     over |-> "none", url |-> NoURL, filename |-> "", signature |-> EmptySig,
     expires |-> 0, enabled |-> FALSE]

\* What an upload of payload replaces: "none" (no object, or the same bytes),
\* "shrink" (other bytes, more of them than payload has) or "replace".
Overwrites(was, payload) ==
    IF was.err # "nil" \/ was.isDir \/ was.data = payload THEN "none"
    ELSE IF Len(was.data) > Len(payload) THEN "shrink"
    ELSE "replace"

\* ------------------------------------------------------------- actions

FsConfigs ==
    [BaseDir : BaseDirs \cup {EmptyStr}, URLPrefix : {EmptyStr},
     SignatureSecretKey : {NoSecret}, PresignExpires : {0}]

InitOf(configs) ==
    \E c \in configs :
        LET b == New(c, [dirs |-> InitialDirs, files |-> <<>>])
        IN  /\ b.err = "nil"
            /\ config = c
            /\ baseDir = b.baseDir
            /\ urlPrefix = b.urlPrefix
            /\ signer = b.signer
            /\ presignExpires = b.presignExpires
            /\ dirs = b.fs.dirs
            /\ files = b.fs.files
            /\ now = 0
            /\ ticks = 0
            /\ grant = NoGrant
            /\ last = NoCall
            /\ calls = NoCalls

Init == InitOf(FsConfigs)

\* Upload (and UploadWithParams, which only forwards params.ObjectKey to it)
\* with a reader that delivers the whole payload and then EOF.
Upload ==
    \E objectKey \in Keys, payload \in Payloads :
        /\ LET r == UploadRes(Disk, objectKey, payload, Len(payload), TRUE)
               was == DownloadRes(Disk, objectKey)
           IN  /\ dirs' = r.fs.dirs
               /\ files' = r.fs.files
               /\ last' = [NoCall EXCEPT !.op = "Upload", !.key = objectKey,
                                         !.payload = payload, !.err = r.err,
                                         !.over = Overwrites(was, payload)]
        /\ UNCHANGED <<backend, calls, now, ticks, grant>>

Download ==
    \E objectKey \in Keys :
        /\ LET r == DownloadRes(Disk, objectKey)
           IN  last' = [NoCall EXCEPT !.op = "Download", !.key = objectKey, !.err = r.err,
                                      !.data = r.data, !.isDir = r.isDir]
        /\ UNCHANGED <<backend, calls, dirs, files, now, ticks, grant>>

GetObjectMeta ==
    \E objectKey \in Keys :
        /\ LET r == GetObjectMetaRes(Disk, objectKey)
           IN  last' = [NoCall EXCEPT !.op = "GetObjectMeta", !.key = objectKey,
                                      !.err = r.err, !.size = r.size, !.isDir = r.isDir]
        /\ UNCHANGED <<backend, calls, dirs, files, now, ticks, grant>>

Delete ==
    \E objectKey \in Keys :
        /\ LET r == DeleteRes(Disk, objectKey)
           IN  /\ dirs' = r.fs.dirs
               /\ files' = r.fs.files
               /\ last' = [NoCall EXCEPT !.op = "Delete", !.key = objectKey, !.err = r.err]
        /\ UNCHANGED <<backend, calls, now, ticks, grant>>

Next == Upload \/ Download \/ GetObjectMeta \/ Delete

Spec == Init /\ [][Next]_vars

\* ------------------------------------- URL issuance and validation

\* Keys "x" and "y"; URL prefixes "" and "http://h"; secrets "" and "s1";
\* PresignExpires 0 (the default applies), 2 seconds and -1 second.
URLKeys == {<<"x">>, <<"y">>}

URLConfigs ==
    [BaseDir : {<<"", "w", "r">>}, URLPrefix : {EmptyStr, <<"http:", "", "h">>},
     SignatureSecretKey : {NoSecret, "s1"}, PresignExpires : {0, 2, -1}]

\* A secret the backend does not hold.
ForeignSecret == "s2"

InitURL == InitOf(URLConfigs)

\* What a client may present: the minted grant, as issued or altered.
PresentedSignatures ==
    IF grant.minted
    THEN {EmptySig, grant.signature, Flip(grant.signature),
          Sign(ForeignSecret, "PUT", UploadPath(grant.key), grant.expires)}
    ELSE {EmptySig, Sign(ForeignSecret, "PUT", UploadPath(<<"x">>), now)}

PresentedExpires ==
    IF grant.minted THEN {grant.expires, grant.expires + 1, 0} ELSE {now, 0}

GetUploadURL ==
    \E objectKey \in URLKeys :
        /\ LET r == GetUploadURLRes(objectKey)
           IN  /\ last' = [NoCall EXCEPT !.op = "GetUploadURL", !.key = objectKey,
                                         !.err = r.err, !.url = r.url]
               /\ grant' = IF r.err = "nil" /\ r.url.query # <<>>
                           THEN [minted |-> TRUE, key |-> objectKey,
                                 signature |-> r.url.signature, expires |-> r.url.expires,
                                 at |-> now, by |-> config]
                           ELSE grant
        /\ UNCHANGED <<backend, calls, dirs, files, now, ticks>>

GetDownloadURL ==
    \E objectKey \in URLKeys, downloadFilename \in {"", "f.txt"} :
        /\ LET r == GetDownloadURLRes(objectKey, downloadFilename)
           IN  last' = [NoCall EXCEPT !.op = "GetDownloadURL", !.key = objectKey,
                                      !.filename = downloadFilename,
                                      !.err = r.err, !.url = r.url]
        /\ UNCHANGED <<backend, calls, dirs, files, now, ticks, grant>>

GetPreviewURL ==
    \E objectKey \in URLKeys :
        /\ LET r == GetPreviewURLRes(objectKey)
           IN  last' = [NoCall EXCEPT !.op = "GetPreviewURL", !.key = objectKey,
                                      !.err = r.err, !.url = r.url]
        /\ UNCHANGED <<backend, calls, dirs, files, now, ticks, grant>>

ValidateUploadSignature ==
    \E objectKey \in URLKeys, signature \in PresentedSignatures,
       expiresAt \in PresentedExpires :
        /\ last' = [NoCall EXCEPT !.op = "ValidateUploadSignature", !.key = objectKey,
                                  !.signature = signature, !.expires = expiresAt,
                                  !.err = ValidateUploadSignatureRes(objectKey, signature,
                                                                     expiresAt)]
        /\ UNCHANGED <<backend, calls, dirs, files, now, ticks, grant>>

IsSignedURLEnabled ==
    /\ last' = [NoCall EXCEPT !.op = "IsSignedURLEnabled", !.enabled = IsSignedURLEnabledRes]
    /\ UNCHANGED <<backend, calls, dirs, files, now, ticks, grant>>

\* time.Now() moves on by a second or by an hour.
Tick ==
    \E d \in {1, OneHour} :
        /\ ticks < MaxTicks
        /\ now' = now + d
        /\ ticks' = ticks + 1
        /\ UNCHANGED <<backend, calls, dirs, files, grant, last>>

NextURL ==
    \/ GetUploadURL
    \/ GetDownloadURL
    \/ GetPreviewURL
    \/ ValidateUploadSignature
    \/ IsSignedURLEnabled
    \/ Tick

SpecURL == InitURL /\ [][NextURL]_vars

\* ------------------------------------------------------ storage root

Root == Resolve(baseDir)

\* n is the storage root or lies below it.
Within(n) == Root \in Prefixes(n)

StrictlyBelow(n) == Within(n) /\ n # Root

Target(objectKey) == Resolve(Join(baseDir, objectKey))

HasDotDot(objectKey) == \E i \in 1..Len(objectKey) : objectKey[i] = ".."

DiskAfter == [dirs |-> dirs', files |-> files']

\* The directory d has a stored object somewhere below it.
HoldsObject(fs, d) == \E f \in DOMAIN fs.files : d \in ProperPrefixes(f)

\* Every node of the disk lies in a directory.
DiskWellFormed ==
    \A n \in dirs \cup DOMAIN files : \A a \in ProperPrefixes(n) : a \in dirs

\* ------------------------------------------------------------- claims

C2_TraversalRejected ==
    [][(/\ last'.op \in {"Upload", "Download", "Delete", "GetObjectMeta"}
        /\ HasDotDot(last'.key)
        /\ ~Within(Target(last'.key)))
       => /\ last'.err # "nil"
          /\ {n \in dirs' : ~Within(n)} = {n \in dirs : ~Within(n)}
          /\ {n \in DOMAIN files' : ~Within(n)} = {n \in DOMAIN files : ~Within(n)}
          /\ \A n \in DOMAIN files : ~Within(n) => files'[n] = files[n]]_vars

\* C3: after Delete(k) returned success, the next call, unless it is an Upload
\* to k, leaves Download(k) and GetObjectMeta(k) failing with not-found (stated
\* for a root given in its clean form and a key below it).
C3_DeletionFinal ==
    [][(/\ baseDir = Clean(baseDir)
        /\ last.op = "Delete" /\ last.err = "nil"
        /\ StrictlyBelow(Target(last.key))
        /\ ~(last'.op = "Upload" /\ Target(last'.key) = Target(last.key)))
       => /\ DownloadRes(DiskAfter, last.key).err = "object not found"
          /\ GetObjectMetaRes(DiskAfter, last.key).err = "object not found"]_vars

\* C4: a successful Upload(k, p2) onto a key holding other bytes p1 leaves
\* exactly p2 under k, also when p2 is shorter than p1.
C4_Overwrite ==
    (last.op = "Upload" /\ last.err = "nil" /\ last.over # "none") =>
        DownloadRes(Disk, last.key) = [err |-> "nil", data |-> last.payload, isDir |-> FALSE]

C4_Witness ==
    last.op = "Upload" /\ last.err = "nil" /\ last.over = "shrink"

\* C5: every directory below the storage root holds a stored object in its
\* subtree, and a Delete removes nothing but its own object and directories
\* that hold no object any more.
C5_Reclamation ==
    /\ [](\A d \in dirs : StrictlyBelow(d) => HoldsObject(Disk, d))
    /\ [][last'.op = "Delete" =>
            /\ \A d \in dirs : HoldsObject(DiskAfter, d) => d \in dirs'
            /\ \A f \in DOMAIN files :
                  f # Target(last'.key) => (f \in DOMAIN files' /\ files'[f] = files[f])]_vars

C5_Witness ==
    /\ last.op = "Delete" /\ last.err = "nil" /\ last.key = <<"a", "b", "c">>
    /\ <<"w", "r", "a", "b", "d">> \in DOMAIN files
    /\ <<"w", "r", "a", "b">> \in dirs

\* C6: a Delete of a key below the storage root removes neither the root nor
\* any directory that is not a strict descendant of it.
C6_RootPreserved ==
    [][(last'.op = "Delete" /\ StrictlyBelow(Target(last'.key)))
       => \A n \in dirs : ~StrictlyBelow(n) => n \in dirs']_vars

\* Expiration values and signature strings a caller may present.
ExpUniverse == {0, now, now + 1, grant.expires, grant.expires + 1}

SigUniverse ==
    {EmptySig} \cup
    UNION {{Sign(k, m, UploadPath(y), e), Flip(Sign(k, m, UploadPath(y), e))} :
             <<k, m, y, e>> \in {signer.secretKey, ForeignSecret} \X {"PUT", "GET"}
                                 \X URLKeys \X ExpUniverse}

\* The TTL the backend was configured with, PresignExpires or its default.
DefaultTTL == IF config.PresignExpires = 0 THEN OneHour ELSE config.PresignExpires

GrantVerdict == ValidateUploadSignatureRes(grant.key, grant.signature, grant.expires)

\* C7: the pair in the URL GetUploadURL(k) returned at time t expires at
\* t + the default TTL, is accepted at every time up to that instant and
\* rejected as expired after it; once expired it stays expired.
C7_Lifecycle ==
    /\ [](grant.minted =>
            /\ grant.expires = grant.at + DefaultTTL
            /\ GrantVerdict = IF now <= grant.expires THEN "nil" ELSE "expired")
    /\ [][(grant.minted /\ grant' = grant /\ GrantVerdict = "expired")
            => GrantVerdict' = "expired"]_vars

C7_Witness ==
    /\ grant.minted /\ config.PresignExpires = 0 /\ now > grant.expires
    /\ last.op = "ValidateUploadSignature" /\ last.err = "expired"
    /\ last.key = grant.key /\ last.signature = grant.signature
    /\ last.expires = grant.expires

\* What C8 says of every presented triple: success only for the exact pair
\* minted for PUT /upload/y.
OnlyExactPair ==
    \A y \in URLKeys, sig \in SigUniverse, e \in ExpUniverse :
        ValidateUploadSignatureRes(y, sig, e) = "nil" =>
            sig = Sign(signer.secretKey, "PUT", UploadPath(y), e)

\* A minted grant is rejected for every other key and with any other expires.
GrantBound ==
    grant.minted =>
        /\ \A y \in URLKeys \ {grant.key} :
              ValidateUploadSignatureRes(y, grant.signature, grant.expires) # "nil"
        /\ \A e \in ExpUniverse \ {grant.expires} :
              ValidateUploadSignatureRes(grant.key, grant.signature, e) # "nil"

\* C8 as stated: with a secret configured, success only for the exact minted
\* pair, and a signature differing from the minted one is rejected with the
\* invalid-signature error.
C8_GrantBindingAnyTime ==
    signer.present =>
        /\ OnlyExactPair
        /\ GrantBound
        /\ grant.minted =>
              \A sig \in SigUniverse \ {grant.signature} :
                  ValidateUploadSignatureRes(grant.key, sig, grant.expires)
                      = "invalid signature"

\* C8 amended: as stated, the differing signature being rejected with the
\* invalid-signature error while its expires value has not passed and with
\* the expired error after it.
C8_GrantBinding ==
    signer.present =>
        /\ OnlyExactPair
        /\ GrantBound
        /\ grant.minted =>
              \A sig \in SigUniverse \ {grant.signature} :
                  ValidateUploadSignatureRes(grant.key, sig, grant.expires)
                      = IF now <= grant.expires THEN "invalid signature" ELSE "expired"

C8_Witness ==
    /\ grant.minted /\ now <= grant.expires
    /\ last.op = "ValidateUploadSignature" /\ last.err = "invalid signature"
    /\ last.key # grant.key /\ last.signature = grant.signature
    /\ last.expires = grant.expires

\* C9: built with an empty secret the backend has no signer, reports signed
\* URLs disabled and accepts every (key, signature, expiresAt); built with a
\* secret it has a signer, reports them enabled and rejects some triple for
\* every key.
C9_OpenMode ==
    /\ config.SignatureSecretKey = NoSecret =>
          /\ ~signer.present
          /\ ~IsSignedURLEnabledRes
          /\ \A y \in URLKeys, sig \in SigUniverse, e \in ExpUniverse :
                ValidateUploadSignatureRes(y, sig, e) = "nil"
    /\ config.SignatureSecretKey # NoSecret =>
          /\ signer.present
          /\ IsSignedURLEnabledRes
          /\ \A y \in URLKeys : \E sig \in SigUniverse, e \in ExpUniverse :
                ValidateUploadSignatureRes(y, sig, e) # "nil"

C9_Witness ==
    /\ config.SignatureSecretKey = NoSecret /\ now > 0
    /\ last.op = "ValidateUploadSignature" /\ last.err = "nil"
    /\ last.signature = EmptySig /\ last.expires = 0

\* C10: without a URL prefix the three URL operations fail with their
\* direct-transfer error; with one, each returns its URL: upload signed exactly
\* when a signer is configured, download with ?filename= exactly when a
\* filename is given, download and preview never signed.
C10_URLIssuance ==
    /\ last.op = "GetUploadURL" =>
          IF urlPrefix = EmptyStr
          THEN last.err = "direct upload required for filesystem backend"
          ELSE /\ last.err = "nil"
               /\ last.url.path = urlPrefix \o <<"upload">> \o last.key
               /\ last.url.query =
                     IF signer.present THEN <<"signature", "expires">> ELSE <<>>
    /\ last.op = "GetDownloadURL" =>
          IF urlPrefix = EmptyStr
          THEN last.err = "direct download required for filesystem backend"
          ELSE /\ last.err = "nil"
               /\ last.url.path = urlPrefix \o <<"download">> \o last.key
               /\ last.url.query = IF last.filename # "" THEN <<"filename">> ELSE <<>>
               /\ last.url.filename = last.filename
    /\ last.op = "GetPreviewURL" =>
          IF urlPrefix = EmptyStr
          THEN last.err = "direct preview required for filesystem backend"
          ELSE /\ last.err = "nil"
               /\ last.url.path = urlPrefix \o <<"preview">> \o last.key
               /\ last.url.query = <<>>

\* C11: GetObjectMeta, Download and Delete of a key that holds no stored
\* object (its path names no file) fail with the not-found error and leave the
\* disk as it was; GetObjectMeta and Download never change the disk.
C11_NotFound ==
    [][/\ last'.op \in {"GetObjectMeta", "Download"} => (dirs' = dirs /\ files' = files)
       /\ (/\ last'.op \in {"GetObjectMeta", "Download", "Delete"}
           /\ Target(last'.key) \notin DOMAIN files)
          => /\ last'.err = "object not found"
             /\ dirs' = dirs
             /\ files' = files]_vars

\* ------------------------------------------ uploads from failing readers

\* The byte streams a reader may hold: one repeated byte, up to MaxLen + 1 long.
Streams == {[i \in 1..n |-> b] : n \in 0..(MaxLen + 1), b \in Bytes}

ReaderKeys == {<<"a">>, <<"a", "b", "c">>}

\* Upload with a reader that delivers the first n bytes of payload and then
\* either EOF (n = Len(payload)) or a read error; a failing write to the file
\* after n bytes leaves the same disk. ctx is never consulted.
UploadReader ==
    \E objectKey \in ReaderKeys, payload \in Streams, eof \in BOOLEAN :
        \E n \in (IF eof THEN {Len(payload)} ELSE 0..Len(payload)) :
            /\ LET r == UploadRes(Disk, objectKey, payload, n, eof)
                   was == DownloadRes(Disk, objectKey)
               IN  /\ dirs' = r.fs.dirs
                   /\ files' = r.fs.files
                   /\ last' = [NoCall EXCEPT !.op = "Upload", !.key = objectKey,
                                             !.payload = payload, !.err = r.err,
                                             !.over = Overwrites(was, payload)]
            /\ UNCHANGED <<backend, calls, now, ticks, grant>>

DeleteReaderKey ==
    \E objectKey \in ReaderKeys :
        /\ LET r == DeleteRes(Disk, objectKey)
           IN  /\ dirs' = r.fs.dirs
               /\ files' = r.fs.files
               /\ last' = [NoCall EXCEPT !.op = "Delete", !.key = objectKey, !.err = r.err]
        /\ UNCHANGED <<backend, calls, now, ticks, grant>>

NextReader == UploadReader \/ DeleteReaderKey

SpecReader == Init /\ [][NextReader]_vars

\* C12: an Upload(k, reader) that does not return success leaves under k
\* either what was there before (the prior object, or none) or the complete
\* new payload; an Upload that returns success leaves the complete payload.
C12_NoPartialObject ==
    [][last'.op = "Upload" =>
         IF last'.err = "nil"
         THEN DownloadRes(DiskAfter, last'.key) =
                 [err |-> "nil", data |-> last'.payload, isDir |-> FALSE]
         ELSE \/ DownloadRes(DiskAfter, last'.key) = DownloadRes(Disk, last'.key)
              \/ DownloadRes(DiskAfter, last'.key) =
                    [err |-> "nil", data |-> last'.payload, isDir |-> FALSE]]_vars

\* -------------------------------------------------- concurrent calls

\* Two keys in one directory: "a/c" and "a/d".
ConcKeys == {<<"a", "c">>, <<"a", "d">>}

ConcConfigs ==
    [BaseDir : {<<"", "w", "r">>}, URLPrefix : {EmptyStr},
     SignatureSecretKey : {NoSecret}, PresignExpires : {0}]

\* The store the concurrent calls start from: empty, or holding one object.
Seeds(fs) == {fs} \cup {UploadRes(fs, k, p, Len(p), TRUE).fs : k \in ConcKeys, p \in Payloads}

InitConcurrent ==
    \E c \in ConcConfigs :
        LET b == New(c, [dirs |-> InitialDirs, files |-> <<>>])
        IN  /\ b.err = "nil"
            /\ config = c
            /\ baseDir = b.baseDir
            /\ urlPrefix = b.urlPrefix
            /\ signer = b.signer
            /\ presignExpires = b.presignExpires
            /\ \E seed \in Seeds(b.fs) : dirs = seed.dirs /\ files = seed.files
            /\ now = 0
            /\ ticks = 0
            /\ grant = NoGrant
            /\ last = NoCall
            /\ calls = NoCalls

\* The call of p returns: it is the first or the second to do so.
Returned(c) ==
    [c EXCEPT !.pc = "done",
              !.rank = 1 + Cardinality({q \in Procs : calls[q].pc = "done"})]

\* One Write of io.Copy through a handle whose offset is off: the byte lands
\* at off, after a gap of zero bytes when the file has become shorter.
WriteAt(fs, path, off, byte) ==
    LET n == Resolve(path)
        old == fs.files[n]
        len == IF Len(old) > off + 1 THEN Len(old) ELSE off + 1
    IN  SetFile(fs, n, [i \in 1..len |-> IF i = off + 1 THEN byte
                                         ELSE IF i <= Len(old) THEN old[i] ELSE 0])

\* Upload, lines 127-133: Join and os.MkdirAll.
UploadMkdirAll(p) ==
    /\ calls[p].pc = "idle"
    /\ \E objectKey \in ConcKeys, payload \in Streams :
          LET c == [NoCallYet EXCEPT !.op = "Upload", !.key = objectKey, !.payload = payload]
              mk == OsMkdirAll(Disk, Dir(Join(baseDir, objectKey)))
          IN  /\ dirs' = mk.fs.dirs
              /\ calls' = [calls EXCEPT ![p] =
                             IF mk.err # "nil"
                             THEN Returned([c EXCEPT !.err = "failed to create directory"])
                             ELSE [c EXCEPT !.pc = "create"]]
    /\ UNCHANGED <<backend, files, now, ticks, grant, last>>

\* Upload, lines 136-140: os.Create.
UploadCreate(p) ==
    /\ calls[p].pc = "create"
    /\ LET c == calls[p]
           cr == OsCreate(Disk, Join(baseDir, c.key))
       IN  /\ files' = cr.fs.files
           /\ calls' = [calls EXCEPT ![p] =
                          IF cr.err # "nil"
                          THEN Returned([c EXCEPT !.err = "failed to create file"])
                          ELSE [c EXCEPT !.pc = "copy", !.off = 0, !.linked = TRUE]]
    /\ UNCHANGED <<backend, dirs, now, ticks, grant, last>>

\* Upload, line 143: io.Copy writes the next chunk (one byte) of the payload.
\* A handle whose file has been removed writes to a file no path names.
UploadCopy(p) ==
    /\ calls[p].pc = "copy"
    /\ calls[p].off < Len(calls[p].payload)
    /\ LET c == calls[p]
       IN  /\ files' = IF c.linked
                       THEN WriteAt(Disk, Join(baseDir, c.key), c.off, c.payload[c.off + 1]).files
                       ELSE files
           /\ calls' = [calls EXCEPT ![p] = [c EXCEPT !.off = c.off + 1]]
    /\ UNCHANGED <<backend, dirs, now, ticks, grant, last>>

\* Upload, lines 143-149: the reader is at EOF, io.Copy and Upload return nil.
UploadReturn(p) ==
    /\ calls[p].pc = "copy"
    /\ calls[p].off = Len(calls[p].payload)
    /\ calls' = [calls EXCEPT ![p] = Returned(calls[p])]
    /\ UNCHANGED <<backend, dirs, files, now, ticks, grant, last>>

\* Delete, lines 196-201: Join and the os.Stat existence check.
DeleteStat(p) ==
    /\ calls[p].pc = "idle"
    /\ \E objectKey \in ConcKeys :
          LET c == [NoCallYet EXCEPT !.op = "Delete", !.key = objectKey]
          IN  calls' = [calls EXCEPT ![p] =
                          IF OsStat(Disk, Join(baseDir, objectKey)) = "ENOENT"
                          THEN Returned([c EXCEPT !.err = "object not found"])
                          ELSE [c EXCEPT !.pc = "remove"]]
    /\ UNCHANGED <<backend, dirs, files, now, ticks, grant, last>>

\* Delete, lines 204-209: os.Remove of the file. Handles open on the removed
\* file lose their path.
DeleteRemove(p) ==
    /\ calls[p].pc = "remove"
    /\ LET c == calls[p]
           filePath == Join(baseDir, c.key)
           rm == OsRemove(Disk, filePath)
       IN  /\ dirs' = rm.fs.dirs
           /\ files' = rm.fs.files
           /\ calls' = [q \in Procs |->
                          IF q = p
                          THEN IF rm.err # "nil"
                               THEN Returned([c EXCEPT !.err = "failed to delete file"])
                               ELSE [c EXCEPT !.pc = "readdir", !.dir = Dir(filePath)]
                          ELSE IF rm.err = "nil" /\ calls[q].pc = "copy"
                                  /\ Target(calls[q].key) = Target(c.key)
                               THEN [calls[q] EXCEPT !.linked = FALSE]
                               ELSE calls[q]]
    /\ UNCHANGED <<backend, now, ticks, grant, last>>

\* cleanupEmptyDirectories, lines 217-222: the base directory test and
\* os.ReadDir; Delete returns nil when the walk ends.
CleanupReadDir(p) ==
    /\ calls[p].pc = "readdir"
    /\ LET c == calls[p]
           rd == OsReadDir(Disk, c.dir)
       IN  calls' = [calls EXCEPT ![p] =
                       IF c.dir # baseDir /\ rd.err = "nil" /\ rd.entries = {}
                       THEN [c EXCEPT !.pc = "rmdir"]
                       ELSE Returned(c)]
    /\ UNCHANGED <<backend, dirs, files, now, ticks, grant, last>>

\* cleanupEmptyDirectories, lines 224-227: os.Remove of the directory and the
\* recursive call on its parent.
CleanupRemove(p) ==
    /\ calls[p].pc = "rmdir"
    /\ LET c == calls[p]
           rm == OsRemove(Disk, c.dir)
       IN  /\ dirs' = rm.fs.dirs
           /\ calls' = [calls EXCEPT ![p] =
                          IF rm.err = "nil"
                          THEN [c EXCEPT !.pc = "readdir", !.dir = Dir(c.dir)]
                          ELSE Returned(c)]
    /\ UNCHANGED <<backend, files, now, ticks, grant, last>>

NextConcurrent ==
    \E p \in Procs :
        \/ UploadMkdirAll(p)
        \/ UploadCreate(p)
        \/ UploadCopy(p)
        \/ UploadReturn(p)
        \/ DeleteStat(p)
        \/ DeleteRemove(p)
        \/ CleanupReadDir(p)
        \/ CleanupRemove(p)

SpecConcurrent == InitConcurrent /\ [][NextConcurrent]_vars

\* Both calls have returned; first and second name them in that order.
BothReturned(first, second) ==
    /\ first \in Procs /\ second \in Procs
    /\ calls[first].pc = "done" /\ calls[first].rank = 1
    /\ calls[second].pc = "done" /\ calls[second].rank = 2

\* C13: when two Upload calls on one key have both returned success, the key
\* holds exactly the payload of the call that returned last.
C13_LastWriterWins ==
    \A first \in Procs, second \in Procs :
        (/\ BothReturned(first, second)
         /\ calls[first].op = "Upload" /\ calls[second].op = "Upload"
         /\ calls[first].key = calls[second].key
         /\ calls[first].err = "nil" /\ calls[second].err = "nil")
        => DownloadRes(Disk, calls[second].key) =
              [err |-> "nil", data |-> calls[second].payload, isDir |-> FALSE]

\* C14: an Upload(k2, p) running together with a Delete(k1) of another key
\* returns success and leaves p under k2; and between Upload's os.MkdirAll and
\* its os.Create the directory it asked for stays on the disk.
C14_UploadSurvivesCleanup ==
    \A u \in Procs, d \in Procs :
        (/\ calls[u].op = "Upload" /\ calls[d].op = "Delete"
         /\ calls[u].key # calls[d].key)
        => /\ calls[u].pc = "create" =>
                 Resolve(Dir(Join(baseDir, calls[u].key))) \in dirs
           /\ calls[u].pc = "done" =>
                 /\ calls[u].err = "nil"
                 /\ DownloadRes(Disk, calls[u].key) =
                       [err |-> "nil", data |-> calls[u].payload, isDir |-> FALSE]

\* C15: of two Delete calls on one key that was stored, exactly one returns
\* success and the other fails with the not-found error; a Delete that has
\* removed its file returns success.
C15_DeleteOnce ==
    /\ \A first \in Procs, second \in Procs :
          (/\ BothReturned(first, second)
           /\ calls[first].op = "Delete" /\ calls[second].op = "Delete"
           /\ calls[first].key = calls[second].key
           /\ {calls[first].err, calls[second].err} # {"object not found"})
          => {calls[first].err, calls[second].err} = {"nil", "object not found"}
    /\ \A p \in Procs :
          (calls[p].op = "Delete" /\ calls[p].pc \in {"readdir", "rmdir"})
          => calls[p].err = "nil"

\* C16: a successful Upload(k1, p) or Delete(k1) leaves Download(k2) and
\* GetObjectMeta(k2) as they were for every other key string k2 that holds an
\* object, keys that differ from k1 only by a "." segment included.
C16_KeyIsolation ==
    [][(last'.op \in {"Upload", "Delete"} /\ last'.err = "nil")
       => \A k2 \in Keys \ {last'.key} :
             Target(k2) \in DOMAIN files =>
                /\ DownloadRes(DiskAfter, k2) = DownloadRes(Disk, k2)
                /\ GetObjectMetaRes(DiskAfter, k2) = GetObjectMetaRes(Disk, k2)]_vars

\* ------------------------------------------- several backend instances

\* Configs of the instances that serve calls: one on root "/w/r" with prefix
\* "http://h", secret "s1" and a TTL of two seconds; the others on root "/w/q"
\* with prefix "http://g" and a TTL of one second, holding the same secret,
\* another secret, or none.
PeerConfigs ==
    {[BaseDir |-> <<"", "w", "r">>, URLPrefix |-> <<"http:", "", "h">>,
      SignatureSecretKey |-> "s1", PresignExpires |-> 2]}
    \cup
    [BaseDir : {<<"", "w", "q">>}, URLPrefix : {<<"http:", "", "g">>},
     SignatureSecretKey : {"s1", ForeignSecret, NoSecret}, PresignExpires : {1}]

InitPeers == InitOf(PeerConfigs)

\* The next call is served by another instance, built by New from its own
\* Config on the same machine and clock. Instances keep no state beyond their
\* fields, so the one that served earlier calls is this New with its Config.
NewBackend ==
    \E c \in PeerConfigs :
        LET b == New(c, Disk)
        IN  /\ b.err = "nil"
            /\ c # config
            /\ config' = c
            /\ baseDir' = b.baseDir
            /\ urlPrefix' = b.urlPrefix
            /\ signer' = b.signer
            /\ presignExpires' = b.presignExpires
            /\ dirs' = b.fs.dirs
            /\ files' = b.fs.files
            /\ last' = NoCall
            /\ UNCHANGED <<now, ticks, grant, calls>>

NextPeers == NewBackend \/ GetUploadURL \/ ValidateUploadSignature \/ Tick

SpecPeers == InitPeers /\ [][NextPeers]_vars

\* The instance serving the call holds the secret the grant was minted under.
SameSecret == config.SignatureSecretKey = grant.by.SignatureSecretKey

\* Two grants minted for one key and one expiration under one secret.
SameGrantInputs(g, h) ==
    /\ g.minted /\ h.minted
    /\ g.key = h.key /\ g.expires = h.expires
    /\ g.by.SignatureSecretKey = h.by.SignatureSecretKey

\* C17 as stated: a grant minted by one instance is accepted before its expiry
\* by every instance holding the same secret, and rejected with the
\* invalid-signature error by every instance whose secret differs.
C17_CrossInstanceAnyPeer ==
    grant.minted =>
        /\ (SameSecret /\ now <= grant.expires) => GrantVerdict = "nil"
        /\ ~SameSecret => GrantVerdict = "invalid signature"

\* C17 amended: a grant minted by one instance is accepted before its expiry
\* by every instance holding the same secret; an instance holding another,
\* non-empty secret rejects it, with the invalid-signature error before its
\* expiry and the expired error after it; two grants minted for the same key
\* and expiration under the same secret carry the same signature.
C17_CrossInstance ==
    /\ [](grant.minted =>
            /\ (SameSecret /\ now <= grant.expires) => GrantVerdict = "nil"
            /\ (~SameSecret /\ config.SignatureSecretKey # NoSecret) =>
                  GrantVerdict = IF now <= grant.expires THEN "invalid signature"
                                 ELSE "expired")
    /\ [][SameGrantInputs(grant, grant') => grant'.signature = grant.signature]_vars

C17_Witness ==
    /\ grant.minted /\ SameSecret /\ now > grant.at /\ now <= grant.expires
    /\ config.BaseDir # grant.by.BaseDir
    /\ config.URLPrefix # grant.by.URLPrefix
    /\ config.PresignExpires # grant.by.PresignExpires
    /\ last.op = "ValidateUploadSignature" /\ last.err = "nil"
    /\ last.key = grant.key /\ last.signature = grant.signature
    /\ last.expires = grant.expires

\* C18: the upward walk of a Delete(k) removes at most as many directories as
\* k has directory segments (the file or directory k itself names not counted).
C18_BoundedCleanup ==
    [][last'.op = "Delete" =>
         Cardinality((dirs \ dirs') \ {Target(last'.key)}) <= Len(last'.key) - 1]_vars

====
